---- MODULE Spec2Model ----
(***************************************************************************)
(* State-machine model of the AccountableAnonFhe contract embedded in      *)
(* src/frontend/web/src/App.tsx (lines 670-914): access control, cooldown  *)
(* gate, batch ledger, submission store, commitment digest and the         *)
(* asynchronous decryption callback.  Every external call is one atomic    *)
(* action; a reverted call is rolled back and is no step of the model.   *)
(* The second part models the web client's record bookkeeping in the same *)
(* file (createIdentity and loadRecords, lines 94-192), where every await  *)
(* is a point at which another browser session may run.                   *)
(***************************************************************************)
EXTENDS Integers, Sequences, FiniteSets, TLC

\* ------------------------------------------------------------------ bounds
MaxTicks == 2         \* advances of block.timestamp, one default cooldown window each
MaxBatch == 2         \* openBatch is not called beyond this batch id
MaxSubs == 2          \* accepted submissions per batch
MaxCalls == 5          \* calls executed in one behaviour
MaxReq == 2           \* decryption requests dispatched to the oracle
MaxSessions == 2      \* createIdentity calls in flight in one behaviour

\* --------------------------------------------------------------- constants
InitialCooldown == 60 \* constructor: cooldownSeconds = 60
Uint32Bytes == 4      \* "uint32 is 4 bytes"
BoolBytes == 1        \* "bool is 1 byte"
AbiWord == 32         \* abi.decode reads 32-byte words

\* ------------------------------------------------------------------ domains
ZeroAddress == "0x0"
Deployer == "0xA"
Callers == {"0xA", "0xB"}                 \* accounts able to send calls
Addresses == Callers \cup {ZeroAddress}
\* Arguments of setCooldownSeconds.  Timestamps and cooldowns stay far below
\* 2^256, so the checked addition of respectCooldown never overflows here.
CooldownInputs == {0, 120}
BatchIds == 0..(MaxBatch + 1)             \* 0 and MaxBatch+1 are never opened
SubIdx == 0..(MaxSubs - 1)
RequestIds == 0..MaxReq                   \* 0 is never issued by the oracle
EuintHandles == {1, 2}                    \* initialised euint32 handles
EboolHandles == {3, 4}                    \* initialised ebool handles
SubmitInputs == {<<1, 4>>, <<2, 3>>}          \* (delta handle, flag handle) pairs
NoHandle == 0                             \* default value of a handle slot
ZeroHash == <<>>                          \* bytes32(0), default stateHash
ThisAddress == "0xC0"                     \* address(this)
Oracle == "0xF"                           \* whoever relays the callback

VARIABLES
    owner, isProvider, paused, cooldownSeconds,
    lastSubmissionTime, lastDecryptionRequestTime,
    currentBatchId, isBatchOpen, submissionsInBatch,
    encryptedReputationUpdates, encryptedIsMalicious, submissionsCount,
    decryptionContexts,
    now,             \* block.timestamp
    nextRequestId,   \* the oracle's request counter (FHE.requestDecryption)
    last,            \* the most recent call that was not reverted, with the events it emitted
    completed,       \* history: DecryptionCompleted events emitted per requestId
    calls,           \* number of calls executed so far
    stale,           \* history: a submission entered the request's batch after the request
    acceptedAt       \* history: time of each account's latest accepted submit, -1 if none

\* The web client: the key-value store it keeps its records in and the
\* createIdentity calls in flight, one per session.
VARIABLES
    data,            \* the store behind getData / setData: key -> bytes
    pc,              \* where each createIdentity call stands
    recordId,        \* createIdentity: recordId
    keys,            \* createIdentity: the local list keys
    loadedKeys,      \* loadRecords: the local list keys
    records,         \* React state filled by setRecords
    clock,           \* Date.now()
    overlapped       \* history: pairs of calls that both read record_keys before either wrote it

front == <<data, pc, recordId, keys, loadedKeys, records, clock, overlapped>>

access == <<owner, isProvider, paused>>
cooldown == <<cooldownSeconds, lastSubmissionTime, lastDecryptionRequestTime>>
ledger == <<currentBatchId, isBatchOpen, submissionsInBatch>>
store == <<encryptedReputationUpdates, encryptedIsMalicious, submissionsCount>>
bridge == <<decryptionContexts, nextRequestId>>
history == <<completed, stale, acceptedAt>>
contractState == <<access, cooldown, ledger, store, bridge>>
vars == <<contractState, history, now, last, calls, front>>

Call(op, sender, arg, events) ==
    [op |-> op, sender |-> sender, arg |-> arg, events |-> events]

\* Every executed call is counted; behaviours are cut off after MaxCalls calls.
\* A call to this contract touches neither the client's store nor a session.
CountCall == calls < MaxCalls /\ calls' = calls + 1 /\ UNCHANGED front

Init ==
    /\ owner = Deployer
    /\ isProvider = [a \in Addresses |-> a = Deployer]
    /\ paused = FALSE
    /\ cooldownSeconds = InitialCooldown
    /\ lastSubmissionTime = [a \in Addresses |-> 0]
    /\ lastDecryptionRequestTime = [a \in Addresses |-> 0]
    /\ currentBatchId = 0
    /\ isBatchOpen = [b \in BatchIds |-> FALSE]
    /\ submissionsInBatch = [b \in BatchIds |-> 0]
    /\ encryptedReputationUpdates = [b \in BatchIds |-> [i \in SubIdx |-> NoHandle]]
    /\ encryptedIsMalicious = [b \in BatchIds |-> [i \in SubIdx |-> NoHandle]]
    /\ submissionsCount = [b \in BatchIds |-> 0]
    /\ decryptionContexts =
           [r \in RequestIds |-> [batchId |-> 0, stateHash |-> ZeroHash, processed |-> FALSE]]
    /\ now = InitialCooldown
    /\ nextRequestId = 1
    /\ last = Call("constructor", Deployer, <<>>,
                   << <<"OwnershipTransferred", ZeroAddress, Deployer>>,
                      <<"ProviderAdded", Deployer>> >>)
    /\ completed = [r \in RequestIds |-> 0]
    /\ stale = [r \in RequestIds |-> FALSE]
    /\ calls = 0
    /\ acceptedAt = [a \in Addresses |-> -1]

\* ---------------------------------------------------------------- modifiers
\* Each is TRUE when the modifier lets the call through.
\* (variant: with no owner left, every caller passes the owner check)
OnlyOwnerOrUnowned(sender) == sender = owner \/ owner = ZeroAddress
\* (variant: providers pass the owner check as well)
OnlyOwnerOrProvider(sender) == sender = owner \/ isProvider[sender]
OnlyOwner(sender) == sender = owner
\* (variant: the owner passes without being in the provider set)
OnlyProviderOrOwner(sender) == isProvider[sender] \/ sender = owner
OnlyProvider(sender) == isProvider[sender]
WhenNotPaused == ~paused
\* respectCooldown: reverts if block.timestamp < lastSubmissionTime[msg.sender] + cooldownSeconds
\* (variant: the boundary now = last + cooldownSeconds is rejected)
RespectCooldownStrict(sender) == now > lastSubmissionTime[sender] + cooldownSeconds
RespectCooldown(sender) == ~(now < lastSubmissionTime[sender] + cooldownSeconds)

\* _isValidBatch
\* (variant: only the id range is tested, not the open flag)
IsValidBatchRangeOnly(b) == b > 0 /\ b <= currentBatchId
IsValidBatch(b) == b > 0 /\ b <= currentBatchId /\ isBatchOpen[b]

\* The outcome of a call in the current state: "OK", or the error it reverts
\* with.  A reverted call is rolled back by the EVM, so it is no step at all:
\* an action is enabled exactly when its outcome is "OK".

\* ------------------------------------------------------------ AccessControl
TransferOwnershipErr(sender) == IF ~OnlyOwner(sender) THEN "NotOwner" ELSE "OK"
TransferOwnership(sender, newOwner) ==
    /\ TransferOwnershipErr(sender) = "OK"
    /\ CountCall
    /\ owner' = newOwner
    /\ last' = Call("transferOwnership", sender, newOwner,
                    << <<"OwnershipTransferred", owner, newOwner>> >>)
    /\ UNCHANGED <<isProvider, paused, cooldown, ledger, store, bridge, history, now>>

AddProviderErr(sender) == IF ~OnlyOwner(sender) THEN "NotOwner" ELSE "OK"
\* (variant: the event is emitted outside the membership test)
AddProviderAlwaysEmits(sender, provider) ==
    /\ AddProviderErr(sender) = "OK"
    /\ CountCall
    /\ isProvider' = [isProvider EXCEPT ![provider] = TRUE]
    /\ last' = Call("addProvider", sender, provider, << <<"ProviderAdded", provider>> >>)
    /\ UNCHANGED <<owner, paused, cooldown, ledger, store, bridge, history, now>>
AddProvider(sender, provider) ==
    /\ AddProviderErr(sender) = "OK"
    /\ CountCall
    /\ isProvider' = [isProvider EXCEPT ![provider] = TRUE]
    /\ last' = Call("addProvider", sender, provider,
                    IF ~isProvider[provider] THEN << <<"ProviderAdded", provider>> >> ELSE <<>>)
    /\ UNCHANGED <<owner, paused, cooldown, ledger, store, bridge, history, now>>

RemoveProviderErr(sender) == IF ~OnlyOwner(sender) THEN "NotOwner" ELSE "OK"
RemoveProvider(sender, provider) ==
    /\ RemoveProviderErr(sender) = "OK"
    /\ CountCall
    /\ isProvider' = [isProvider EXCEPT ![provider] = FALSE]
    /\ last' = Call("removeProvider", sender, provider,
                    IF isProvider[provider] THEN << <<"ProviderRemoved", provider>> >> ELSE <<>>)
    /\ UNCHANGED <<owner, paused, cooldown, ledger, store, bridge, history, now>>

PauseErr(sender) ==
    IF ~OnlyOwner(sender) THEN "NotOwner"
    ELSE IF ~WhenNotPaused THEN "Paused"
    ELSE "OK"
Pause(sender) ==
    /\ PauseErr(sender) = "OK"
    /\ CountCall
    /\ paused' = TRUE
    /\ last' = Call("pause", sender, <<>>, << <<"ContractPaused", sender>> >>)
    /\ UNCHANGED <<owner, isProvider, cooldown, ledger, store, bridge, history, now>>

\* (variant: unpause does not test the flag)
UnpauseErrUnchecked(sender) == IF ~OnlyOwner(sender) THEN "NotOwner" ELSE "OK"
UnpauseErr(sender) ==
    IF ~OnlyOwner(sender) THEN "NotOwner"
    ELSE IF ~paused THEN "Paused"
    ELSE "OK"
Unpause(sender) ==
    /\ UnpauseErr(sender) = "OK"
    /\ CountCall
    /\ paused' = FALSE
    /\ last' = Call("unpause", sender, <<>>, << <<"ContractUnpaused", sender>> >>)
    /\ UNCHANGED <<owner, isProvider, cooldown, ledger, store, bridge, history, now>>

\* ------------------------------------------------------------- CooldownGate
\* (variant: a zero window is accepted)
SetCooldownSecondsErrUnchecked(sender, newCooldownSeconds) ==
    IF ~OnlyOwner(sender) THEN "NotOwner" ELSE "OK"
SetCooldownSecondsErr(sender, newCooldownSeconds) ==
    IF ~OnlyOwner(sender) THEN "NotOwner"
    ELSE IF newCooldownSeconds = 0 THEN "InvalidCooldown"
    ELSE "OK"
SetCooldownSeconds(sender, newCooldownSeconds) ==
    /\ SetCooldownSecondsErr(sender, newCooldownSeconds) = "OK"
    /\ CountCall
    /\ cooldownSeconds' = newCooldownSeconds
    /\ last' = Call("setCooldownSeconds", sender, newCooldownSeconds,
                    << <<"CooldownSecondsSet", cooldownSeconds, newCooldownSeconds>> >>)
    /\ UNCHANGED <<access, lastSubmissionTime, lastDecryptionRequestTime,
                   ledger, store, bridge, history, now>>

\* -------------------------------------------------------------- BatchLedger
OpenBatchErr(sender) ==
    IF ~OnlyOwner(sender) THEN "NotOwner"
    ELSE IF ~WhenNotPaused THEN "Paused"
    ELSE "OK"
\* (variant: opening a batch closes the one before it)
OpenBatchClosesPrevious(sender) ==
    /\ OpenBatchErr(sender) = "OK"
    /\ CountCall
    /\ currentBatchId < MaxBatch
    /\ currentBatchId' = currentBatchId + 1
    /\ isBatchOpen' = [isBatchOpen EXCEPT ![currentBatchId + 1] = TRUE,
                                          ![currentBatchId] = FALSE]
    /\ submissionsInBatch' = [submissionsInBatch EXCEPT ![currentBatchId + 1] = 0]
    /\ last' = Call("openBatch", sender, <<>>, << <<"BatchOpened", currentBatchId + 1>> >>)
    /\ UNCHANGED <<access, cooldown, store, bridge, history, now>>
OpenBatch(sender) ==
    /\ OpenBatchErr(sender) = "OK"
    /\ CountCall
    /\ currentBatchId < MaxBatch
    /\ currentBatchId' = currentBatchId + 1
    /\ isBatchOpen' = [isBatchOpen EXCEPT ![currentBatchId + 1] = TRUE]
    /\ submissionsInBatch' = [submissionsInBatch EXCEPT ![currentBatchId + 1] = 0]
    /\ last' = Call("openBatch", sender, <<>>, << <<"BatchOpened", currentBatchId + 1>> >>)
    /\ UNCHANGED <<access, cooldown, store, bridge, history, now>>

\* (variant: the open flag is not tested)
CloseBatchErrUnchecked(sender) ==
    IF ~OnlyOwner(sender) THEN "NotOwner"
    ELSE IF ~WhenNotPaused THEN "Paused"
    ELSE "OK"
CloseBatchErr(sender) ==
    IF ~OnlyOwner(sender) THEN "NotOwner"
    ELSE IF ~WhenNotPaused THEN "Paused"
    ELSE IF ~isBatchOpen[currentBatchId] THEN "BatchClosedOrInvalid"
    ELSE "OK"
\* (variant: closeBatch closes every batch that is open)
CloseBatchClosesAll(sender) ==
    /\ CloseBatchErr(sender) = "OK"
    /\ CountCall
    /\ isBatchOpen' = [b \in BatchIds |-> FALSE]
    /\ last' = Call("closeBatch", sender, <<>>, << <<"BatchClosed", currentBatchId>> >>)
    /\ UNCHANGED <<access, cooldown, currentBatchId, submissionsInBatch,
                   store, bridge, history, now>>
CloseBatch(sender) ==
    /\ CloseBatchErr(sender) = "OK"
    /\ CountCall
    /\ isBatchOpen' = [isBatchOpen EXCEPT ![currentBatchId] = FALSE]
    /\ last' = Call("closeBatch", sender, <<>>, << <<"BatchClosed", currentBatchId>> >>)
    /\ UNCHANGED <<access, cooldown, currentBatchId, submissionsInBatch,
                   store, bridge, history, now>>

\* ---------------------------------------------------------- SubmissionStore
\* (variant: the batch check comes after the writes and is lost)
SubmitErrBatchUnchecked(sender, b) ==
    IF ~OnlyProvider(sender) THEN "NotProvider"
    ELSE IF ~WhenNotPaused THEN "Paused"
    ELSE IF ~RespectCooldown(sender) THEN "CooldownActive"
    ELSE "OK"
SubmitErr(sender, b) ==
    IF ~OnlyProvider(sender) THEN "NotProvider"
    ELSE IF ~WhenNotPaused THEN "Paused"
    ELSE IF ~RespectCooldown(sender) THEN "CooldownActive"
    ELSE IF ~IsValidBatch(b) THEN "BatchClosedOrInvalid"
    ELSE "OK"
\* (variant: the pair is written to the first slot, whatever the count)
SubmitToFirstSlot(sender, b, encryptedReputationDelta, encryptedMaliciousFlag) ==
    LET submissionIndex == 0 IN
    /\ SubmitErr(sender, b) = "OK"
    /\ CountCall
    /\ submissionsCount[b] < MaxSubs
    /\ encryptedReputationUpdates' =
           [encryptedReputationUpdates EXCEPT ![b][submissionIndex] = encryptedReputationDelta]
    /\ encryptedIsMalicious' =
           [encryptedIsMalicious EXCEPT ![b][submissionIndex] = encryptedMaliciousFlag]
    /\ submissionsInBatch' = [submissionsInBatch EXCEPT ![b] = @ + 1]
    /\ submissionsCount' = [submissionsCount EXCEPT ![b] = @ + 1]
    /\ lastSubmissionTime' = [lastSubmissionTime EXCEPT ![sender] = now]
    /\ acceptedAt' = [acceptedAt EXCEPT ![sender] = now]
    /\ stale' = [r \in RequestIds |->
                    stale[r] \/ (0 < r /\ r < nextRequestId /\ decryptionContexts[r].batchId = b)]
    /\ last' = Call("submit", sender, <<b, encryptedReputationDelta, encryptedMaliciousFlag>>,
                    << <<"Submission", b, submissionIndex, sender>> >>)
    /\ UNCHANGED <<access, cooldownSeconds, lastDecryptionRequestTime,
                   currentBatchId, isBatchOpen, bridge, completed, now>>
\* _initIfNeeded only assigns its local copy: the handles are stored as passed.
SubmitReputationUpdate(sender, b, encryptedReputationDelta, encryptedMaliciousFlag) ==
    LET submissionIndex == submissionsInBatch[b] IN
    /\ SubmitErr(sender, b) = "OK"
    /\ CountCall
    /\ submissionIndex < MaxSubs
    /\ encryptedReputationUpdates' =
           [encryptedReputationUpdates EXCEPT ![b][submissionIndex] = encryptedReputationDelta]
    /\ encryptedIsMalicious' =
           [encryptedIsMalicious EXCEPT ![b][submissionIndex] = encryptedMaliciousFlag]
    /\ submissionsInBatch' = [submissionsInBatch EXCEPT ![b] = @ + 1]
    /\ submissionsCount' = [submissionsCount EXCEPT ![b] = @ + 1]
    /\ lastSubmissionTime' = [lastSubmissionTime EXCEPT ![sender] = now]
    /\ acceptedAt' = [acceptedAt EXCEPT ![sender] = now]
    /\ stale' = [r \in RequestIds |->
                    stale[r] \/ (0 < r /\ r < nextRequestId /\ decryptionContexts[r].batchId = b)]
    /\ last' = Call("submit", sender, <<b, encryptedReputationDelta, encryptedMaliciousFlag>>,
                    << <<"Submission", b, submissionIndex, sender>> >>)
    /\ UNCHANGED <<access, cooldownSeconds, lastDecryptionRequestTime,
                   currentBatchId, isBatchOpen, bridge, completed, now>>

\* --------------------------------------------------------- CommitmentEngine
\* The loop of requestBatchDecryption / myCallback: cts[i] is submission i's
\* delta handle and cts[i + numSubmissions] its flag handle (1-based here).
CollectCts(b) ==
    LET numSubmissions == submissionsCount[b] IN
    [k \in 1..(2 * numSubmissions) |->
        IF k <= numSubmissions
        THEN encryptedReputationUpdates[b][k - 1]
        ELSE encryptedIsMalicious[b][k - numSubmissions - 1]]

\* _hashCiphertexts: keccak256(abi.encode(cts, address(this))), modelled as an
\* injective function of its input (collision resistance); never bytes32(0).
\* (variant: the digest also covers the block timestamp)
HashCiphertextsWithClock(cts) == <<cts, ThisAddress, now>>
HashCiphertexts(cts) == <<cts, ThisAddress>>

\* ------------------------------------------------------------------- oracle
\* The oracle's decryption of a handle (external to the contract).
PlainU32(h) == IF h = 2 THEN 5 ELSE 0
PlainBool(h) == h = 4
Zeros(n) == [k \in 1..n |-> 0]
AbiWordOf(v) == Zeros(AbiWord - 1) \o <<v>>
RECURSIVE Concat(_)
Concat(ss) == IF ss = <<>> THEN <<>> ELSE Head(ss) \o Concat(Tail(ss))
PlainOf(h) == IF h \in EboolHandles THEN (IF PlainBool(h) THEN 1 ELSE 0) ELSE PlainU32(h)
\* the decrypted values ABI-encoded one word per handle, in the order of cts
AbiCleartexts(cts) == Concat([k \in 1..Len(cts) |-> AbiWordOf(PlainOf(cts[k]))])
\* the fixed-width layout the callback's offsets assume: per submission a
\* 4-byte delta slot then a 1-byte flag slot
PackedCleartexts(cts) ==
    LET n == Len(cts) \div 2 IN
    Concat([k \in 1..n |->
        Zeros(Uint32Bytes - 1) \o <<PlainOf(cts[k])>> \o <<PlainOf(cts[k + n])>>])

\* ----------------------------------------------------------------- decoding
\* A decoding step either yields a value or reverts the call.
Decoded(v) == [ok |-> TRUE, val |-> v]
DecodeFailure == [ok |-> FALSE, val |-> 0]
\* abi.decode(buf, (uint32)): needs a full word whose value fits 32 bits
AbiDecodeUint32(buf) ==
    IF Len(buf) < AbiWord THEN DecodeFailure
    ELSE IF \E k \in 1..(AbiWord - Uint32Bytes) : buf[k] # 0 THEN DecodeFailure
    ELSE Decoded(buf[AbiWord - 3] * 16777216 + buf[AbiWord - 2] * 65536
                 + buf[AbiWord - 1] * 256 + buf[AbiWord])
\* abi.decode(buf, (bool)): needs a full word whose value is 0 or 1
AbiDecodeBool(buf) ==
    IF Len(buf) < AbiWord THEN DecodeFailure
    ELSE IF \E k \in 1..(AbiWord - 1) : buf[k] # 0 THEN DecodeFailure
    ELSE IF buf[AbiWord] > 1 THEN DecodeFailure
    ELSE Decoded(buf[AbiWord] = 1)
\* cleartexts[offset:]
SliceFrom(buf, offset) ==
    IF offset > Len(buf) THEN DecodeFailure
    ELSE Decoded(SubSeq(buf, offset + 1, Len(buf)))

\* The decode loop of myCallback, iteration i (0-based): the delta is decoded
\* from the start of the buffer, the flag from the running offset 5 * i + 4.
DecodedDelta(cleartexts, i) == AbiDecodeUint32(cleartexts)
DecodedFlag(cleartexts, i) ==
    LET offset == i * (Uint32Bytes + BoolBytes) + Uint32Bytes
        tailBytes == SliceFrom(cleartexts, offset)
    IN IF ~tailBytes.ok THEN DecodeFailure ELSE AbiDecodeBool(tailBytes.val)
DecodeOk(cleartexts, numSubmissions) ==
    \A i \in 0..(numSubmissions - 1) :
        /\ DecodedDelta(cleartexts, i).ok
        /\ DecodedFlag(cleartexts, i).ok

\* --------------------------------------------------------- DecryptionBridge
\* (variant: the batch must be open, as submit requires)
RequestErrOpenOnly(sender, b) ==
    IF ~OnlyOwner(sender) THEN "NotOwner"
    ELSE IF ~WhenNotPaused THEN "Paused"
    ELSE IF ~RespectCooldown(sender) THEN "CooldownActive"
    ELSE IF ~IsValidBatch(b) THEN "BatchClosedOrInvalid"
    ELSE "OK"
RequestErr(sender, b) ==
    IF ~OnlyOwner(sender) THEN "NotOwner"
    ELSE IF ~WhenNotPaused THEN "Paused"
    ELSE IF ~RespectCooldown(sender) THEN "CooldownActive"
    ELSE IF submissionsCount[b] = 0 THEN "BatchClosedOrInvalid"
    ELSE "OK"
\* (variant: a new request re-freezes the digest of the earlier contexts of its batch)
RequestRefreezesBatch(sender, b) ==
    LET cts == CollectCts(b)
        requestId == nextRequestId
    IN /\ RequestErr(sender, b) = "OK"
       /\ CountCall
       /\ requestId <= MaxReq
       /\ decryptionContexts' = [r \in RequestIds |->
              IF r = requestId
              THEN [batchId |-> b, stateHash |-> HashCiphertexts(cts), processed |-> FALSE]
              ELSE IF decryptionContexts[r].batchId = b
              THEN [decryptionContexts[r] EXCEPT !.stateHash = HashCiphertexts(cts)]
              ELSE decryptionContexts[r]]
       /\ nextRequestId' = nextRequestId + 1
       /\ lastDecryptionRequestTime' = [lastDecryptionRequestTime EXCEPT ![sender] = now]
       /\ last' = Call("requestDecryption", sender, b,
                       << <<"DecryptionRequested", requestId, b>> >>)
       /\ UNCHANGED <<access, cooldownSeconds, lastSubmissionTime, ledger, store,
                      history, now>>
RequestBatchDecryption(sender, b) ==
    LET cts == CollectCts(b)
        requestId == nextRequestId    \* FHE.requestDecryption returns a fresh id
    IN /\ RequestErr(sender, b) = "OK"
       /\ CountCall
       /\ requestId <= MaxReq
       /\ decryptionContexts' = [decryptionContexts EXCEPT ![requestId] =
              [batchId |-> b, stateHash |-> HashCiphertexts(cts), processed |-> FALSE]]
       /\ nextRequestId' = nextRequestId + 1
       /\ lastDecryptionRequestTime' = [lastDecryptionRequestTime EXCEPT ![sender] = now]
       /\ last' = Call("requestDecryption", sender, b,
                       << <<"DecryptionRequested", requestId, b>> >>)
       /\ UNCHANGED <<access, cooldownSeconds, lastSubmissionTime, ledger, store,
                      history, now>>

\* (variants: a gate of the callback left out)
IsReplayUnchecked(requestId) == FALSE
IsStateMismatchUnchecked(requestId) == FALSE
\* if (decryptionContexts[requestId].processed) revert ReplayDetected();
IsReplay(requestId) == decryptionContexts[requestId].processed
\* if (currentStateHash != decryptionContexts[requestId].stateHash) revert StateMismatch();
IsStateMismatch(requestId) ==
    HashCiphertexts(CollectCts(decryptionContexts[requestId].batchId))
        # decryptionContexts[requestId].stateHash

\* (variant: the catch clause swallows the proof failure)
CallbackErrProofIgnored(requestId, cleartexts, proofOk) ==
    IF IsReplay(requestId) THEN "ReplayDetected"
    ELSE IF IsStateMismatch(requestId) THEN "StateMismatch"
    ELSE IF ~DecodeOk(cleartexts, submissionsCount[decryptionContexts[requestId].batchId])
    THEN "DecodeError"
    ELSE "OK"
\* (variant: the digest is not compared before the proof is verified)
CallbackErrDigestIgnored(requestId, cleartexts, proofOk) ==
    IF IsReplay(requestId) THEN "ReplayDetected"
    ELSE IF ~proofOk THEN "InvalidProof"
    ELSE IF ~DecodeOk(cleartexts, submissionsCount[decryptionContexts[requestId].batchId])
    THEN "DecodeError"
    ELSE "OK"
\* (variant: the proof is verified before the digest is compared)
CallbackErrProofFirst(requestId, cleartexts, proofOk) ==
    IF IsReplay(requestId) THEN "ReplayDetected"
    ELSE IF ~proofOk THEN "InvalidProof"
    ELSE IF IsStateMismatch(requestId) THEN "StateMismatch"
    ELSE IF ~DecodeOk(cleartexts, submissionsCount[decryptionContexts[requestId].batchId])
    THEN "DecodeError"
    ELSE "OK"
\* proofOk: whether FHE.checkSignatures(requestId, cleartexts, proof) returns.
\* A revert inside the try's success block (the decoding) is not caught by the
\* catch clause: it propagates as it is.
CallbackErr(requestId, cleartexts, proofOk) ==
    IF IsReplay(requestId) THEN "ReplayDetected"
    ELSE IF IsStateMismatch(requestId) THEN "StateMismatch"
    ELSE IF ~proofOk THEN "InvalidProof"
    ELSE IF ~DecodeOk(cleartexts, submissionsCount[decryptionContexts[requestId].batchId])
    THEN "DecodeError"
    ELSE "OK"
MyCallback(sender, requestId, cleartexts, proofOk) ==
    LET b == decryptionContexts[requestId].batchId
        numSubmissions == submissionsCount[b]
    IN /\ CallbackErr(requestId, cleartexts, proofOk) = "OK"
       /\ CountCall
       /\ decryptionContexts' = [decryptionContexts EXCEPT ![requestId].processed = TRUE]
       /\ completed' = [completed EXCEPT ![requestId] = @ + 1]
       /\ last' = Call("myCallback", sender, <<requestId, cleartexts, proofOk>>,
              << <<"DecryptionCompleted", requestId, b,
                   [k \in 1..numSubmissions |-> DecodedDelta(cleartexts, k - 1).val],
                   [k \in 1..numSubmissions |-> DecodedFlag(cleartexts, k - 1).val]>> >>)
       /\ UNCHANGED <<access, cooldown, ledger, store, nextRequestId, stale, acceptedAt, now>>

\* The cleartext buffers a callback may carry for a request: the true
\* plaintexts of the batch in either layout, or an all-zero buffer long enough
\* for every offset the decode loop reads.
ZeroBuffer == Zeros(AbiWord + MaxSubs * (Uint32Bytes + BoolBytes))
CleartextKinds == {"abi", "packed", "zeros"}
CleartextsFor(requestId, kind) ==
    LET cts == CollectCts(decryptionContexts[requestId].batchId) IN
    CASE kind = "abi" -> AbiCleartexts(cts)
      [] kind = "packed" -> PackedCleartexts(cts)
      [] kind = "zeros" -> ZeroBuffer
CleartextInputs(requestId) == {CleartextsFor(requestId, k) : k \in CleartextKinds}

\* ----------------------------------------------------------------- time
\* Blocks advance the timestamp between calls.
Tick ==
    /\ now + InitialCooldown <= InitialCooldown * (1 + MaxTicks)
    /\ now' = now + InitialCooldown
    /\ UNCHANGED <<contractState, history, last, calls, front>>

Next ==
    \/ \E s \in Callers, a \in Addresses : TransferOwnership(s, a)
    \/ \E s \in Callers, a \in Callers : AddProvider(s, a)
    \/ \E s \in Callers, a \in Callers : RemoveProvider(s, a)
    \/ \E s \in Callers : Pause(s)
    \/ \E s \in Callers : Unpause(s)
    \/ \E s \in Callers, c \in CooldownInputs : SetCooldownSeconds(s, c)
    \/ \E s \in Callers : OpenBatch(s)
    \/ \E s \in Callers : CloseBatch(s)
    \/ \E s \in Callers, b \in BatchIds, p \in SubmitInputs :
           SubmitReputationUpdate(s, b, p[1], p[2])
    \/ \E s \in Callers, b \in BatchIds : RequestBatchDecryption(s, b)
    \/ \E r \in RequestIds, p \in BOOLEAN :
           \E k \in CleartextKinds : MyCallback(Oracle, r, CleartextsFor(r, k), p)
    \/ Tick

\* ============================================================ web client
\* createIdentity and loadRecords of the App component.  The store behind
\* contract.getData / contract.setData is taken to return for a key the bytes
\* last written under it, and no bytes for a key never written.  Each await is
\* a separate step, so calls of different sessions interleave between them.
Sessions == 1..MaxSessions
RecordIds == 1..MaxSessions               \* values of `${Date.now()}-${random}`
NoId == 0
DefaultAlias == ""                        \* newRecordData.alias as the form starts (line 62)
EncryptedScore == "FHE-MTAw"              \* FHEEncryptNumber(100), the default initialScore
KeysKey == <<"record_keys">>
RecordKey(id) == <<"record_", id>>
DataKeys == {KeysKey} \cup {RecordKey(id) : id \in RecordIds}
NoBytes == <<>>
chain == <<contractState, history, now, last, calls>>

\* ethers.toUtf8Bytes(JSON.stringify(keys)): the list between brackets
StringifyKeys(list) == <<"[">> \o list \o <<"]">>
\* lines 168-173: no bytes, or bytes that do not parse, leave keys = []
ParseKeys(keysBytes) ==
    IF Len(keysBytes) > 0
    THEN IF keysBytes[1] = "[" /\ keysBytes[Len(keysBytes)] = "]"
         THEN SubSeq(keysBytes, 2, Len(keysBytes) - 1)
         ELSE <<>>
    ELSE <<>>
\* ethers.toUtf8Bytes(JSON.stringify(recordData))
StringifyRecord(recordData) ==
    <<"{", recordData.score, recordData.timestamp, recordData.owner,
      recordData.alias, recordData.status, "}">>
ParseRecord(recordBytes) ==
    [score |-> recordBytes[2], timestamp |-> recordBytes[3], owner |-> recordBytes[4],
     alias |-> recordBytes[5], status |-> recordBytes[6]]

\* list.sort((a, b) => b.timestamp - a.timestamp): stable, newest first
RECURSIVE InsertByTimestamp(_, _)
InsertByTimestamp(sorted, r) ==
    IF sorted = <<>> THEN <<r>>
    ELSE IF Head(sorted).timestamp < r.timestamp THEN <<r>> \o sorted
    ELSE <<Head(sorted)>> \o InsertByTimestamp(Tail(sorted), r)
RECURSIVE SortByTimestamp(_)
SortByTimestamp(list) ==
    IF list = <<>> THEN <<>>
    ELSE InsertByTimestamp(SortByTimestamp(SubSeq(list, 1, Len(list) - 1)), list[Len(list)])

\* lines 115-133: the records of the listed keys that are found in the store
RECURSIVE LoadEach(_)
LoadEach(ks) ==
    IF ks = <<>> THEN <<>>
    ELSE LET key == Head(ks)
             recordBytes == data[RecordKey(key)]
         IN  IF Len(recordBytes) > 0
             THEN LET recordData == ParseRecord(recordBytes) IN
                  << [id |-> key, encryptedScore |-> recordData.score,
                      timestamp |-> recordData.timestamp, owner |-> recordData.owner,
                      alias |-> recordData.alias, status |-> recordData.status] >>
                      \o LoadEach(Tail(ks))
             ELSE LoadEach(Tail(ks))

\* line 152: the id is the time and a random suffix, taken as never drawn
\* twice; ids are numbered in the order they are generated
FreshId == 1 + Cardinality({q \in Sessions : recordId[q] # NoId})

FrontInit ==
    /\ data = [k \in DataKeys |-> NoBytes]
    /\ pc = [p \in Sessions |-> "idle"]
    /\ recordId = [p \in Sessions |-> NoId]
    /\ keys = [p \in Sessions |-> <<>>]
    /\ loadedKeys = [p \in Sessions |-> <<>>]
    /\ records = [p \in Sessions |-> <<>>]
    /\ clock = 0
    /\ overlapped = {}

\* lines 142-165: the record is built and stored under record_<id>
StoreRecord(p, id, elapsed) ==
    LET recordData == [score |-> EncryptedScore, timestamp |-> clock + elapsed,
                       owner |-> p, alias |-> DefaultAlias, status |-> "pending"] IN
    /\ pc[p] = "idle"
    /\ \A q \in Sessions : recordId[q] # id
    /\ recordId' = [recordId EXCEPT ![p] = id]
    /\ clock' = clock + elapsed
    /\ data' = [data EXCEPT ![RecordKey(id)] = StringifyRecord(recordData)]
    /\ pc' = [pc EXCEPT ![p] = "getKeys"]
    /\ UNCHANGED <<keys, loadedKeys, records, overlapped, chain>>

\* lines 168-174: record_keys is read and the id pushed on the local copy
ReadKeys(p) ==
    /\ pc[p] = "getKeys"
    /\ keys' = [keys EXCEPT ![p] = Append(ParseKeys(data[KeysKey]), recordId[p])]
    /\ overlapped' = overlapped \cup {{p, q} : q \in {s \in Sessions : s # p /\ pc[s] = "setKeys"}}
    /\ pc' = [pc EXCEPT ![p] = "setKeys"]
    /\ UNCHANGED <<data, recordId, loadedKeys, records, clock, chain>>

\* (variant: the id is appended to the list as it stands in the store)
WriteKeysAppended(p) ==
    /\ pc[p] = "setKeys"
    /\ data' = [data EXCEPT ![KeysKey] =
                   StringifyKeys(Append(ParseKeys(data[KeysKey]), recordId[p]))]
    /\ pc' = [pc EXCEPT ![p] = "loadKeys"]
    /\ UNCHANGED <<recordId, keys, loadedKeys, records, clock, overlapped, chain>>
\* line 175: the local copy replaces record_keys
WriteKeys(p) ==
    /\ pc[p] = "setKeys"
    /\ data' = [data EXCEPT ![KeysKey] = StringifyKeys(keys[p])]
    /\ pc' = [pc EXCEPT ![p] = "loadKeys"]
    /\ UNCHANGED <<recordId, keys, loadedKeys, records, clock, overlapped, chain>>

\* lines 165-175, catch at 186: an awaited store call throws (the wallet
\* rejects the transaction, the node fails) and the call ends there
Throw(p) ==
    /\ pc[p] \in {"getKeys", "setKeys"}
    /\ pc' = [pc EXCEPT ![p] = "error"]
    /\ UNCHANGED <<data, recordId, keys, loadedKeys, records, clock, overlapped, chain>>

\* loadRecords, lines 105-112
LoadKeys(p) ==
    /\ pc[p] = "loadKeys"
    /\ loadedKeys' = [loadedKeys EXCEPT ![p] = ParseKeys(data[KeysKey])]
    /\ pc' = [pc EXCEPT ![p] = "loadList"]
    /\ UNCHANGED <<data, recordId, keys, records, clock, overlapped, chain>>

\* loadRecords, lines 115-137
LoadList(p) ==
    /\ pc[p] = "loadList"
    /\ records' = [records EXCEPT ![p] = SortByTimestamp(LoadEach(loadedKeys[p]))]
    /\ pc' = [pc EXCEPT ![p] = "done"]
    /\ UNCHANGED <<data, recordId, keys, loadedKeys, clock, overlapped, chain>>

\* loadRecords, lines 98-102 and 138: the contract is unavailable or a read
\* throws; loadRecords returns without setRecords and createIdentity goes on
LoadFails(p) ==
    /\ pc[p] \in {"loadKeys", "loadList"}
    /\ pc' = [pc EXCEPT ![p] = "done"]
    /\ UNCHANGED <<data, recordId, keys, loadedKeys, records, clock, overlapped, chain>>

FrontNext ==
    \/ \E p \in Sessions, elapsed \in {0, 1} : StoreRecord(p, FreshId, elapsed)
    \/ \E p \in Sessions : ReadKeys(p)
    \/ \E p \in Sessions : WriteKeys(p)
    \/ \E p \in Sessions : Throw(p)
    \/ \E p \in Sessions : LoadKeys(p)
    \/ \E p \in Sessions : LoadList(p)
    \/ \E p \in Sessions : LoadFails(p)

\* The contract as deployed and the client before any createIdentity call.
Start == Init /\ FrontInit
\* The contract on its own: no createIdentity call is made.
Spec == Start /\ [][Next]_vars
\* The web client on its own: the contract stays as deployed.
FrontSpec == Start /\ [][FrontNext]_vars

\* ================================================================== claims
Issued(r) == 0 < r /\ r < nextRequestId
Pending(r) == Issued(r) /\ ~decryptionContexts[r].processed
BatchOf(r) == decryptionContexts[r].batchId
\* every callback the oracle (or anyone) may send for r fails with err
EveryCallbackFailsWith(r, err) ==
    \A p \in BOOLEAN : \A c \in CleartextInputs(r) : CallbackErr(r, c, p) = err

\* C1: the callback succeeds at most once per requestId: once it has succeeded,
\* every further callback for that id fails with ReplayDetected, whatever
\* cleartexts and proof it carries, and no second DecryptionCompleted is emitted.
C1_CallbackAtMostOnce ==
    \A r \in RequestIds :
        /\ completed[r] <= 1
        /\ completed[r] >= 1 => EveryCallbackFailsWith(r, "ReplayDetected")
\* a request was completed and other calls have been executed since
C1_Witness ==
    \E r \in RequestIds : completed[r] = 1 /\ stale[r] /\ last.op = "submit"

\* C2 as stated: once a submission entered R's batch after R was issued, every
\* callback for R fails with StateMismatch and R is unprocessed.
C2_StaleAlwaysMismatch ==
    \A r \in RequestIds :
        Issued(r) /\ stale[r] =>
            /\ ~decryptionContexts[r].processed
            /\ EveryCallbackFailsWith(r, "StateMismatch")
\* C2 amended: if R is still unprocessed when a submission enters its batch,
\* every later callback for R fails with StateMismatch and R stays unprocessed
\* (a request processed before the submission answers ReplayDetected instead).
C2_StalePendingMismatch ==
    /\ [](\A r \in RequestIds :
            Pending(r) /\ stale[r] => EveryCallbackFailsWith(r, "StateMismatch"))
    /\ [][\A r \in RequestIds :
            Pending(r) /\ stale[r] => ~decryptionContexts'[r].processed]_vars
\* a pending request overtaken by a submission, whose callback would otherwise decode
C2_Witness ==
    \E r \in RequestIds :
        /\ Pending(r) /\ stale[r]
        /\ DecodeOk(ZeroBuffer, submissionsCount[BatchOf(r)])
        /\ last.op # "submit"

\* C3: while no submission entered R's batch since R was issued, the digest
\* recomputed at callback time equals the frozen one, so a callback with a valid
\* proof is never rejected with StateMismatch, whatever else happened meanwhile.
C3_UntouchedDigestMatches ==
    \A r \in RequestIds :
        Pending(r) /\ ~stale[r] =>
            /\ ~IsStateMismatch(r)
            /\ \A c \in CleartextInputs(r) : CallbackErr(r, c, TRUE) # "StateMismatch"
\* a pending, untouched request after its batch was closed, the contract paused
\* and time has passed
C3_Witness ==
    \E r \in RequestIds :
        /\ Pending(r) /\ ~stale[r]
        /\ ~isBatchOpen[BatchOf(r)] /\ paused
        /\ now > lastDecryptionRequestTime[Deployer]
        /\ lastDecryptionRequestTime[Deployer] > 0

\* C4: a callback is all or nothing.  A step marks a context processed or emits
\* DecryptionCompleted only if every gate passed (no replay, digest match,
\* valid proof, decodable buffer), and then it does both; and a callback step
\* touches nothing but that context.  A callback failing any gate is no step.
C4_CallbackAllOrNothing ==
    [][\A r \in RequestIds :
        LET marked == decryptionContexts'[r].processed # decryptionContexts[r].processed
            emitted == completed'[r] # completed[r]
        IN (marked \/ emitted) =>
              /\ ~IsReplay(r) /\ ~IsStateMismatch(r)
              /\ last'.op = "myCallback" /\ last'.arg[1] = r
              /\ last'.arg[3]
              /\ DecodeOk(last'.arg[2], submissionsCount[BatchOf(r)])
              /\ decryptionContexts'[r] = [decryptionContexts[r] EXCEPT !.processed = TRUE]
              /\ completed'[r] = completed[r] + 1
              /\ last'.events[1][1] = "DecryptionCompleted" /\ last'.events[1][2] = r
              /\ \A q \in RequestIds \ {r} : decryptionContexts'[q] = decryptionContexts[q]
              /\ UNCHANGED <<access, cooldown, ledger, store, nextRequestId, stale, acceptedAt>>
      ]_vars
\* one request processed (replay gate), one pending whose callback fails the
\* proof gate or the decoding gate depending on its input
C4_Witness ==
    \E r1, r2 \in RequestIds :
        /\ completed[r1] = 1 /\ Pending(r2)
        /\ \E c \in CleartextInputs(r2) :
              /\ CallbackErr(r2, c, FALSE) = "InvalidProof"
              /\ CallbackErr(r2, c, TRUE) = "DecodeError"

\* C5: a callback for a requestId no requestDecryption ever created fails with
\* ReplayDetected.
C5_UnknownIdIsReplay ==
    \A r \in RequestIds : ~Issued(r) => EveryCallbackFailsWith(r, "ReplayDetected")

\* The values the oracle decrypts for submission i (0-based) of batch b.
TrueDelta(b, i) == PlainU32(encryptedReputationUpdates[b][i])
TrueFlag(b, i) == PlainBool(encryptedIsMalicious[b][i])
\* the callback for r carrying cleartexts c with a valid proof succeeds and
\* publishes, at every index, the cleartexts of that submission's two handles
RoundTrip(r, c) ==
    /\ CallbackErr(r, c, TRUE) = "OK"
    /\ \A i \in 0..(submissionsCount[BatchOf(r)] - 1) :
          /\ DecodedDelta(c, i).val = TrueDelta(BatchOf(r), i)
          /\ DecodedFlag(c, i).val = TrueFlag(BatchOf(r), i)

\* C6: round trip.  For a request on a batch of n >= 1 submissions, the callback
\* carrying the cleartexts of exactly those submissions with a valid proof
\* succeeds and publishes delta[i], flag[i] = the cleartexts of submission i
\* (in whichever of the two layouts the oracle uses).
C6_RoundTrip ==
    \A r \in RequestIds :
        Pending(r) /\ ~stale[r] =>
            \/ RoundTrip(r, AbiCleartexts(CollectCts(BatchOf(r))))
            \/ RoundTrip(r, PackedCleartexts(CollectCts(BatchOf(r))))

\* one 4-byte delta slot and one 1-byte flag slot per submission
ExpectedLength(numSubmissions) == numSubmissions * (Uint32Bytes + BoolBytes)
\* C7: a callback with a valid proof whose buffer length differs from the
\* expected total fails (and so leaves the request unprocessed).
C7_WrongLengthRejected ==
    \A r \in RequestIds : \A c \in CleartextInputs(r) :
        Len(c) # ExpectedLength(submissionsCount[BatchOf(r)])
            => CallbackErr(r, c, TRUE) # "OK"

\* C8: with the other guards satisfied, a submit by P less than cooldownSeconds
\* after P's previous accepted submit fails with CooldownActive, and one at
\* least cooldownSeconds after it (the boundary included) is accepted.
C8_SubmitCooldown ==
    \A p \in Callers : \A b \in BatchIds :
        (acceptedAt[p] >= 0 /\ isProvider[p] /\ ~paused /\ IsValidBatch(b)) =>
            /\ now < acceptedAt[p] + cooldownSeconds => SubmitErr(p, b) = "CooldownActive"
            /\ now >= acceptedAt[p] + cooldownSeconds => SubmitErr(p, b) = "OK"
\* P submits again exactly cooldownSeconds after its previous accepted submit
C8_Witness ==
    \E p \in Callers : \E b \in BatchIds :
        /\ acceptedAt[p] >= 0 /\ now = acceptedAt[p] + cooldownSeconds
        /\ SubmitErr(p, b) = "OK" /\ submissionsCount[b] >= 1

\* C9: a requestDecryption less than cooldownSeconds after the same actor's
\* previous successful requestDecryption fails with CooldownActive.
C9_RequestCooldown ==
    \A s \in Callers : \A b \in BatchIds :
        (lastDecryptionRequestTime[s] > 0 /\ OnlyOwner(s) /\ ~paused
         /\ now < lastDecryptionRequestTime[s] + cooldownSeconds)
            => RequestErr(s, b) = "CooldownActive"

\* C10: the two cooldowns are independent.  A requestDecryption by A fails with
\* CooldownActive only because of A's previous request, never because of A's
\* accepted submit; a submit by A fails with CooldownActive only because of A's
\* previous submit, never because of A's request.
C10_CooldownsIndependent ==
    \A s \in Callers : \A b \in BatchIds :
        /\ RequestErr(s, b) = "CooldownActive"
              => now < lastDecryptionRequestTime[s] + cooldownSeconds
        /\ SubmitErr(s, b) = "CooldownActive"
              => now < lastSubmissionTime[s] + cooldownSeconds

\* C11: a cooldown record changes only in a step that is the successful
\* rate-limited call of that very actor: lastSubmissionTime[a] only in a submit
\* by a that passed every check (provider, unpaused, cooldown elapsed, open
\* batch), lastDecryptionRequestTime[a] only in a requestDecryption by a that
\* passed every check (owner, unpaused, cooldown elapsed, non-empty batch).
\* A rejected submit or requestDecryption is no step and moves no record.
C11_CooldownRecordedOnSuccessOnly ==
    [][\A a \in Addresses :
        /\ lastSubmissionTime'[a] # lastSubmissionTime[a] =>
              /\ last'.op = "submit" /\ last'.sender = a
              /\ isProvider[a] /\ ~paused
              /\ now >= lastSubmissionTime[a] + cooldownSeconds
              /\ IsValidBatch(last'.arg[1])
              /\ lastSubmissionTime'[a] = now
              /\ \A o \in Addresses \ {a} : lastSubmissionTime'[o] = lastSubmissionTime[o]
              /\ UNCHANGED lastDecryptionRequestTime
        /\ lastDecryptionRequestTime'[a] # lastDecryptionRequestTime[a] =>
              /\ last'.op = "requestDecryption" /\ last'.sender = a
              /\ a = owner /\ ~paused
              /\ now >= lastSubmissionTime[a] + cooldownSeconds
              /\ submissionsCount[last'.arg] > 0
              /\ lastDecryptionRequestTime'[a] = now
              /\ \A o \in Addresses \ {a} :
                    lastDecryptionRequestTime'[o] = lastDecryptionRequestTime[o]
              /\ UNCHANGED lastSubmissionTime
      ]_vars
\* an actor with both records set, for whom a submit and a requestDecryption
\* would now be rejected for different reasons
C11_Witness ==
    \E a \in Callers : \E b \in BatchIds :
        /\ lastSubmissionTime[a] > 0 /\ lastDecryptionRequestTime[a] > 0
        /\ SubmitErr(a, b) = "BatchClosedOrInvalid"
        /\ RequestErr(a, b) = "BatchClosedOrInvalid"
        /\ \E c \in BatchIds : SubmitErr(a, c) = "OK"

\* C12: while the contract is paused every state-changing call other than
\* unpause is rejected, whoever sends it: transferOwnership, addProvider,
\* removeProvider, setCooldownSeconds, openBatch, closeBatch, submit,
\* requestDecryption and the decryption callback.
C12_PausedRejectsAllWrites ==
    paused =>
        /\ \A s \in Callers :
              /\ TransferOwnershipErr(s) # "OK"
              /\ AddProviderErr(s) # "OK"
              /\ RemoveProviderErr(s) # "OK"
              /\ PauseErr(s) # "OK"
              /\ OpenBatchErr(s) # "OK"
              /\ CloseBatchErr(s) # "OK"
              /\ \A c \in CooldownInputs : SetCooldownSecondsErr(s, c) # "OK"
              /\ \A b \in BatchIds : SubmitErr(s, b) # "OK" /\ RequestErr(s, b) # "OK"
        /\ \A r \in RequestIds : \A p \in BOOLEAN : \A c \in CleartextInputs(r) :
              CallbackErr(r, c, p) # "OK"

\* C13: eligibility for requestDecryption depends on the submission count, not
\* on the batch being open.  For the owner, unpaused, with the cooldown gate
\* of the call passed: requestDecryption(b) fails with BatchClosedOrInvalid
\* exactly when b has no submission (never-opened ids included) and succeeds
\* otherwise, open or closed; the successful call binds a fresh pending context
\* to b with the digest of b's ciphertexts.
C13_RequestEligibility ==
    /\ [](\A s \in Callers : \A b \in BatchIds :
            (OnlyOwner(s) /\ ~paused /\ RespectCooldown(s)) =>
                /\ RequestErr(s, b) = "BatchClosedOrInvalid" <=> submissionsCount[b] = 0
                /\ submissionsCount[b] > 0 => RequestErr(s, b) = "OK")
    /\ [][(last'.op = "requestDecryption" /\ calls' # calls) =>
            /\ submissionsCount[last'.arg] > 0
            /\ nextRequestId' = nextRequestId + 1
            /\ decryptionContexts'[nextRequestId] =
                  [batchId |-> last'.arg,
                   stateHash |-> HashCiphertexts(CollectCts(last'.arg)),
                   processed |-> FALSE]
            /\ last'.events = << <<"DecryptionRequested", nextRequestId, last'.arg>> >>
         ]_vars
\* a request was just accepted for a closed batch holding submissions
C13_Witness ==
    /\ last.op = "requestDecryption"
    /\ ~isBatchOpen[last.arg] /\ submissionsCount[last.arg] >= 1
    /\ Pending(nextRequestId - 1) /\ BatchOf(nextRequestId - 1) = last.arg
    /\ \E b \in BatchIds : b > 0 /\ b <= currentBatchId /\ submissionsCount[b] = 0

\* C14: closeBatch acts on the latest batch id.  Whenever that batch is not
\* open (no batch was ever opened, or it was already closed) the call is
\* rejected for every caller, and with BatchClosedOrInvalid once the owner and
\* pause checks are passed; right after a closeBatch a second one is rejected;
\* an executed closeBatch found the batch open and only clears its open flag.
C14_CloseNeedsOpenBatch ==
    /\ [](~isBatchOpen[currentBatchId] =>
            \A s \in Callers :
                /\ CloseBatchErr(s) # "OK"
                /\ (OnlyOwner(s) /\ ~paused) => CloseBatchErr(s) = "BatchClosedOrInvalid")
    /\ [](last.op = "closeBatch" => ~isBatchOpen[currentBatchId])
    /\ [][(last'.op = "closeBatch" /\ calls' # calls) =>
            /\ isBatchOpen[currentBatchId]
            /\ isBatchOpen' = [isBatchOpen EXCEPT ![currentBatchId] = FALSE]
            /\ UNCHANGED <<access, cooldown, currentBatchId, submissionsInBatch, store, bridge>>
         ]_vars
\* the owner has just closed the latest batch and is not paused: a second
\* closeBatch is the call at hand
C14_Witness ==
    /\ last.op = "closeBatch" /\ ~paused /\ currentBatchId >= 1
    /\ last.sender = owner
    /\ CloseBatchErr(owner) = "BatchClosedOrInvalid"

\* batch b was opened and has been closed since
Closed(b) == 0 < b /\ b <= currentBatchId /\ ~isBatchOpen[b]
\* what the store and the ledger hold for batch b
BatchContent(b) ==
    <<submissionsCount[b], submissionsInBatch[b],
      encryptedReputationUpdates[b], encryptedIsMalicious[b]>>

\* C15: submit is accepted only for a currently open batch.  With the provider,
\* pause and cooldown checks passed, a submit naming id 0, an id above the
\* latest opened one, or a closed batch fails with BatchClosedOrInvalid, and a
\* submit naming an open batch is accepted; ids never opened are never open
\* and hold nothing; a closed batch is closed in every later state and its
\* submission count and stored submissions never change again.
C15_SubmitOnlyToOpenBatch ==
    /\ [](\A b \in BatchIds :
            /\ (b = 0 \/ b > currentBatchId) =>
                  ~isBatchOpen[b] /\ submissionsCount[b] = 0
            /\ \A s \in Callers :
                  /\ ~isBatchOpen[b] => SubmitErr(s, b) # "OK"
                  /\ (isProvider[s] /\ ~paused /\ RespectCooldown(s)) =>
                        SubmitErr(s, b) = IF isBatchOpen[b] THEN "OK"
                                          ELSE "BatchClosedOrInvalid")
    /\ [][\A b \in BatchIds :
            /\ Closed(b) => Closed(b)' /\ BatchContent(b)' = BatchContent(b)
            /\ BatchContent(b)' # BatchContent(b) =>
                  last'.op = "submit" /\ last'.arg[1] = b /\ isBatchOpen[b]
         ]_vars
\* a closed batch holding a submission, a later batch open, and a provider
\* whose submit passes every check but the batch check
C15_Witness ==
    \E b \in BatchIds : \E s \in Callers :
        /\ Closed(b) /\ submissionsCount[b] >= 1
        /\ b < currentBatchId /\ isBatchOpen[currentBatchId]
        /\ SubmitErr(s, b) = "BatchClosedOrInvalid"
        /\ SubmitErr(s, currentBatchId) = "OK"

\* C16: submissions are role-gated.  A submit by a caller outside the provider
\* set fails with NotProvider whatever else holds (paused, cooldown running,
\* batch closed or invalid: the provider check comes first); right after
\* removeProvider(P), P is outside the set; and P enters the set only through
\* an addProvider(P) executed by the owner.
C16_NotProviderFirst ==
    /\ [](\A s \in Callers : \A b \in BatchIds :
            ~isProvider[s] => SubmitErr(s, b) = "NotProvider")
    /\ [](last.op = "removeProvider" => ~isProvider[last.arg])
    /\ [][\A p \in Addresses :
            /\ (~isProvider[p] /\ isProvider'[p]) =>
                  last'.op = "addProvider" /\ last'.arg = p /\ last'.sender = owner
            /\ (last'.op = "submit" /\ calls' # calls) => isProvider[last'.sender]
         ]_vars
\* a removed provider that has submitted before, while the contract is paused
\* and its cooldown is still running: the three later checks would all fail
C16_Witness ==
    \E p \in Callers :
        /\ ~isProvider[p] /\ acceptedAt[p] >= 0
        /\ paused /\ ~RespectCooldown(p)
        /\ \A b \in BatchIds : ~IsValidBatch(b) /\ SubmitErr(p, b) = "NotProvider"

\* C17: addProvider and removeProvider are idempotent.  The owner's call never
\* fails; addProvider(P) with P already a provider and removeProvider(P) with P
\* not a provider change nothing of the contract and emit no event; otherwise
\* the call flips P's membership only and emits exactly one event.  So a second
\* addProvider(P) in a row leaves the state of the first and adds no event.
C17_ProviderIdempotence ==
    /\ [](\A s \in Callers : OnlyOwner(s) =>
            AddProviderErr(s) = "OK" /\ RemoveProviderErr(s) = "OK")
    /\ [][(last'.op = "addProvider" /\ calls' # calls) =>
            /\ isProvider' = [isProvider EXCEPT ![last'.arg] = TRUE]
            /\ UNCHANGED <<owner, paused, cooldown, ledger, store, bridge>>
            /\ last'.events = IF isProvider[last'.arg] THEN <<>>
                              ELSE << <<"ProviderAdded", last'.arg>> >>
            /\ isProvider[last'.arg] => UNCHANGED contractState
         ]_vars
    /\ [][(last'.op = "removeProvider" /\ calls' # calls) =>
            /\ isProvider' = [isProvider EXCEPT ![last'.arg] = FALSE]
            /\ UNCHANGED <<owner, paused, cooldown, ledger, store, bridge>>
            /\ last'.events = IF isProvider[last'.arg] THEN << <<"ProviderRemoved", last'.arg>> >>
                              ELSE <<>>
            /\ ~isProvider[last'.arg] => UNCHANGED contractState
         ]_vars
\* addProvider(P) was just executed for a P that was a provider already
C17_Witness ==
    /\ last.op = "addProvider" /\ last.events = <<>>
    /\ last.arg # Deployer /\ isProvider[last.arg]

\* C18: in every reachable state the current owner is eligible as a provider:
\* a submit by the owner is never rejected with NotProvider, also after
\* ownership moved to an account never added as a provider and after
\* removeProvider(owner).
C18_OwnerAlwaysProvider ==
    owner \in Callers => \A b \in BatchIds : SubmitErr(owner, b) # "NotProvider"

\* the outcomes of the nine owner-only operations for caller s, over all arguments
OwnerOnlyOutcomes(s) ==
    {TransferOwnershipErr(s), AddProviderErr(s), RemoveProviderErr(s),
     PauseErr(s), UnpauseErr(s), OpenBatchErr(s), CloseBatchErr(s)}
        \cup {SetCooldownSecondsErr(s, c) : c \in CooldownInputs}
        \cup {RequestErr(s, b) : b \in BatchIds}

\* C19: one owner at a time, and only the owner runs owner-only operations.
\* Each of transferOwnership, addProvider, removeProvider, pause, unpause,
\* setCooldownSeconds, openBatch, closeBatch and requestDecryption fails with
\* NotOwner for every caller but the owner (provider or not) and never fails
\* with NotOwner for the owner; every executed owner-only call was sent by the
\* owner; the owner changes only in a transferOwnership sent by the owner, to
\* the address it names, so afterwards the previous owner is rejected and the
\* new one passes.
C19_OnlyOwner ==
    /\ [](\A s \in Callers :
            IF s = owner THEN "NotOwner" \notin OwnerOnlyOutcomes(s)
            ELSE OwnerOnlyOutcomes(s) = {"NotOwner"})
    /\ [][/\ owner' # owner =>
                /\ last'.op = "transferOwnership" /\ last'.sender = owner
                /\ owner' = last'.arg
                /\ UNCHANGED <<isProvider, paused, cooldown, ledger, store, bridge>>
          /\ (calls' # calls /\ last'.op \notin {"submit", "myCallback"}) =>
                last'.sender = owner
         ]_vars
\* ownership has just moved from a provider to another account: the previous
\* owner, still a provider, is now rejected and the new owner passes
C19_Witness ==
    /\ last.op = "transferOwnership" /\ last.sender # owner /\ owner = last.arg
    /\ owner \in Callers /\ isProvider[last.sender] /\ ~isProvider[owner]
    /\ OwnerOnlyOutcomes(last.sender) = {"NotOwner"}
    /\ TransferOwnershipErr(owner) = "OK"

\* the digest of the batch as it is now differs from the one frozen for r
Mismatch(r) == HashCiphertexts(CollectCts(BatchOf(r))) # decryptionContexts[r].stateHash

\* C20 as stated: once a callback for a pending request has failed with
\* StateMismatch or InvalidProof, no callback for it ever succeeds.  A failed
\* callback leaves the state as it is, so the states after such a failure are
\* the states in which that failure is possible.
C20_FailedIsTerminal ==
    \A r \in RequestIds :
        (Pending(r) /\ \E p \in BOOLEAN : \E c \in CleartextInputs(r) :
                          CallbackErr(r, c, p) \in {"StateMismatch", "InvalidProof"})
            => \A p \in BOOLEAN : \A c \in CleartextInputs(r) : CallbackErr(r, c, p) # "OK"
\* C20 amended: a pending request whose callback fails with StateMismatch is
\* terminal: it stays unprocessed and mismatching in every later state, and
\* every callback for it fails with StateMismatch.  A callback that fails with
\* InvalidProof (no proof is accepted while the digest matches) leaves the
\* request pending as well, but that request can still be completed later.
C20_MismatchIsTerminal ==
    /\ [](\A r \in RequestIds :
            (Pending(r) /\ Mismatch(r)) => EveryCallbackFailsWith(r, "StateMismatch"))
    /\ [][\A r \in RequestIds :
            (Pending(r) /\ Mismatch(r)) => Pending(r)' /\ Mismatch(r)']_vars
    /\ [](\A r \in RequestIds :
            (Pending(r) /\ ~Mismatch(r)) =>
                \A c \in CleartextInputs(r) : CallbackErr(r, c, FALSE) = "InvalidProof")
\* a request rejected for good by a later submission, followed by a second
\* request on the same batch whose callback fails on a bad proof and succeeds
\* on a good one
C20_Witness ==
    \E r1, r2 \in RequestIds :
        /\ Pending(r1) /\ Mismatch(r1)
        /\ Pending(r2) /\ ~Mismatch(r2) /\ BatchOf(r1) = BatchOf(r2)
        /\ CallbackErr(r2, ZeroBuffer, FALSE) = "InvalidProof"
        /\ CallbackErr(r2, ZeroBuffer, TRUE) = "OK"

\* C21: a proof failure and a digest mismatch are reported as distinct errors.
\* For a pending request whose digest still matches, a callback with an invalid
\* proof fails with InvalidProof and no callback fails with StateMismatch; for
\* a pending request whose digest no longer matches, every callback fails with
\* StateMismatch, valid proof or not, and none with InvalidProof.
C21_ProofAndDigestDistinct ==
    \A r \in RequestIds : \A c \in CleartextInputs(r) :
        Pending(r) =>
            IF Mismatch(r)
            THEN \A p \in BOOLEAN : CallbackErr(r, c, p) = "StateMismatch"
            ELSE /\ CallbackErr(r, c, FALSE) = "InvalidProof"
                 /\ CallbackErr(r, c, TRUE) \notin {"StateMismatch", "InvalidProof"}
\* two pending requests and no completed one: the digest of the first no
\* longer matches, the digest of the one just issued does
C21_Witness ==
    /\ last.op = "requestDecryption"
    /\ \A r \in RequestIds : completed[r] = 0
    /\ \E r1, r2 \in RequestIds :
          /\ Pending(r1) /\ Mismatch(r1) /\ stale[r1]
          /\ Pending(r2) /\ ~Mismatch(r2) /\ ~stale[r2]

\* C22: a stale request never blocks a batch.  In every state where batch b
\* holds a submission, whatever earlier requests on b are pending or rejected,
\* requestDecryption(b) by the owner (unpaused, cooldown gate passed) is
\* accepted; and the callback of a request that no later submission overtook,
\* carrying the decrypted values of the batch with a valid proof, succeeds.
C22_StaleNeverBlocks ==
    /\ \A s \in Callers : \A b \in BatchIds :
          (OnlyOwner(s) /\ ~paused /\ RespectCooldown(s) /\ submissionsCount[b] >= 1)
              => RequestErr(s, b) = "OK"
    /\ \A r \in RequestIds :
          (Pending(r) /\ ~stale[r]) =>
              \E k \in {"abi", "packed"} : CallbackErr(r, CleartextsFor(r, k), TRUE) = "OK"

\* the pair stored for batch b at index i
StoredPair(b, i) == <<encryptedReputationUpdates[b][i], encryptedIsMalicious[b][i]>>

\* C23: submissions are append-only with sequential, gapless indices.  In every
\* state the slots of b holding a pair are exactly 0..count(b)-1 (and the index
\* counter equals the count); an accepted submit to b stores its pair at index
\* count(b), raises the count by one and emits Submission(b, that index,
\* caller); no step changes a stored pair or lowers a count.
C23_AppendOnlyGapless ==
    /\ [](\A b \in BatchIds :
            /\ submissionsInBatch[b] = submissionsCount[b]
            /\ \A i \in SubIdx :
                  /\ i < submissionsCount[b] <=> encryptedReputationUpdates[b][i] # NoHandle
                  /\ i < submissionsCount[b] <=> encryptedIsMalicious[b][i] # NoHandle)
    /\ [][\A b \in BatchIds :
            /\ submissionsCount'[b] >= submissionsCount[b]
            /\ \A i \in SubIdx :
                  i < submissionsCount[b] => StoredPair(b, i)' = StoredPair(b, i)
            /\ submissionsCount'[b] # submissionsCount[b] =>
                  /\ last'.op = "submit" /\ last'.arg[1] = b
                  /\ submissionsCount'[b] = submissionsCount[b] + 1
                  /\ encryptedReputationUpdates'[b][submissionsCount[b]] = last'.arg[2]
                  /\ encryptedIsMalicious'[b][submissionsCount[b]] = last'.arg[3]
                  /\ last'.events =
                        << <<"Submission", b, submissionsCount[b], last'.sender>> >>
         ]_vars
\* a second pair, different from the first, was just appended to a batch
C23_Witness ==
    /\ last.op = "submit"
    /\ submissionsCount[last.arg[1]] = 2
    /\ last.events[1][3] = 1
    /\ StoredPair(last.arg[1], 0) # StoredPair(last.arg[1], 1)

\* C24: batch ids are allocated sequentially from 1.  The latest id starts at
\* 0, never decreases, and changes only in an openBatch, by exactly one; that
\* openBatch marks the new id open with no submission, emits BatchOpened(new
\* id) and leaves every other batch as it was (it closes none); every open
\* batch and every batch holding a submission has an id in 1..latest.
C24_SequentialBatchIds ==
    /\ [](\A b \in BatchIds :
            (isBatchOpen[b] \/ submissionsCount[b] > 0 \/ submissionsInBatch[b] > 0)
                => (1 <= b /\ b <= currentBatchId))
    /\ [][/\ currentBatchId' >= currentBatchId
          /\ (last'.op = "openBatch" /\ calls' # calls) <=> currentBatchId' # currentBatchId
          /\ currentBatchId' # currentBatchId =>
                \A n \in BatchIds : n = currentBatchId + 1 =>
                    /\ currentBatchId' = n
                    /\ isBatchOpen'[n] /\ ~isBatchOpen[n]
                    /\ BatchContent(n)' =
                          <<0, 0, [i \in SubIdx |-> NoHandle], [i \in SubIdx |-> NoHandle]>>
                    /\ last'.events = << <<"BatchOpened", n>> >>
                    /\ \A b \in BatchIds \ {n} :
                          /\ isBatchOpen'[b] = isBatchOpen[b]
                          /\ BatchContent(b)' = BatchContent(b)
         ]_vars
\* a second batch was just opened while the first is still open and holds a
\* submission
C24_Witness ==
    /\ last.op = "openBatch" /\ currentBatchId = 2
    /\ isBatchOpen[1] /\ isBatchOpen[2]
    /\ submissionsCount[1] >= 1 /\ submissionsCount[2] = 0

\* the context of an id no request has created yet
NoContext == [batchId |-> 0, stateHash |-> ZeroHash, processed |-> FALSE]

\* C25: lifecycle of a decryption context, request ids being unique.  An id
\* not issued yet has no context; a context changes only (a) when the
\* requestDecryption that receives this id creates it, unprocessed, bound to
\* the requested batch and to the digest of that batch's submissions at that
\* moment, or (b) when a successful callback for this very id turns processed
\* from false to true, batch and digest untouched.  Nothing else touches it, so
\* a context never completed stays pending.
C25_ContextLifecycle ==
    /\ [](\A r \in RequestIds :
            IF Issued(r)
            THEN /\ submissionsCount[BatchOf(r)] >= 1
                 /\ decryptionContexts[r].stateHash # ZeroHash
                 /\ decryptionContexts[r].processed <=> completed[r] = 1
            ELSE decryptionContexts[r] = NoContext)
    /\ [][\A r \in RequestIds :
            decryptionContexts'[r] # decryptionContexts[r] =>
                IF ~Issued(r)
                THEN /\ r = nextRequestId /\ nextRequestId' = r + 1
                     /\ last'.op = "requestDecryption"
                     /\ decryptionContexts'[r] =
                           [batchId |-> last'.arg,
                            stateHash |-> HashCiphertexts(CollectCts(last'.arg)),
                            processed |-> FALSE]
                ELSE /\ last'.op = "myCallback" /\ last'.arg[1] = r
                     /\ ~decryptionContexts[r].processed
                     /\ decryptionContexts'[r] =
                           [decryptionContexts[r] EXCEPT !.processed = TRUE]
                     /\ CallbackErr(r, last'.arg[2], last'.arg[3]) = "OK"
         ]_vars
\* an older request still pending, untouched, after a submission to its batch
\* and a later request on the same batch
C25_Witness ==
    \E r1, r2 \in RequestIds :
        /\ r1 < r2 /\ Pending(r1) /\ Issued(r2) /\ BatchOf(r1) = BatchOf(r2)
        /\ decryptionContexts[r1].stateHash # decryptionContexts[r2].stateHash
        /\ last.op = "requestDecryption"

\* C26: pause and unpause only flip the flag from the opposite state.  For the
\* owner, pause fails with Paused while the flag is set and unpause fails with
\* Paused (the same error) while it is clear; otherwise pause sets the flag and
\* unpause clears it, each emitting its event and changing nothing else; the
\* flag changes in no other way.
C26_PauseFlipsOnly ==
    /\ [](\A s \in Callers : s = owner =>
            /\ PauseErr(s) = IF paused THEN "Paused" ELSE "OK"
            /\ UnpauseErr(s) = IF paused THEN "OK" ELSE "Paused")
    /\ [][/\ (calls' # calls /\ last'.op \in {"pause", "unpause"}) <=> paused' # paused
          /\ paused' # paused =>
                /\ last'.op = IF paused THEN "unpause" ELSE "pause"
                /\ last'.sender = owner
                /\ last'.events = << <<IF paused THEN "ContractUnpaused" ELSE "ContractPaused",
                                       last'.sender>> >>
                /\ UNCHANGED <<owner, isProvider, cooldown, ledger, store, bridge>>
         ]_vars
\* the owner has paused and unpaused again: a further unpause is the call at hand
C26_Witness ==
    /\ last.op = "unpause" /\ ~paused /\ last.sender = owner
    /\ UnpauseErr(owner) = "Paused" /\ PauseErr(owner) = "OK"

\* C27: rate limiting can never be disabled.  cooldownSeconds is 60 after
\* deployment and positive in every state; setCooldownSeconds(0) by the owner
\* fails with InvalidCooldown; the window changes only in a setCooldownSeconds
\* sent by the owner with a non-zero value, which becomes the new window.
C27_CooldownPositive ==
    /\ [](/\ cooldownSeconds > 0
          /\ calls = 0 => cooldownSeconds = InitialCooldown
          /\ \A s \in Callers :
                SetCooldownSecondsErr(s, 0) = IF s = owner THEN "InvalidCooldown"
                                              ELSE "NotOwner")
    /\ [][cooldownSeconds' # cooldownSeconds =>
            /\ last'.op = "setCooldownSeconds" /\ last'.sender = owner
            /\ last'.arg # 0 /\ cooldownSeconds' = last'.arg
            /\ last'.events = << <<"CooldownSecondsSet", cooldownSeconds, last'.arg>> >>
            /\ UNCHANGED <<access, lastSubmissionTime, lastDecryptionRequestTime,
                           ledger, store, bridge>>
         ]_vars
\* the owner has changed the window and a setCooldownSeconds(0) is at hand
C27_Witness ==
    /\ last.op = "setCooldownSeconds" /\ cooldownSeconds # InitialCooldown
    /\ last.sender = owner
    /\ SetCooldownSecondsErr(owner, 0) = "InvalidCooldown"

\* C28: at-most-once processing is per request, not per batch.  When two
\* requests are issued for the same batch and no submission entered the batch
\* since the first of them, each of the two is either still pending, and then
\* its callback carrying the decrypted values of the batch with a valid proof
\* succeeds whether or not the other was completed, or it was completed
\* exactly once and now answers ReplayDetected.
C28_PerRequestNotPerBatch ==
    \A r1, r2 \in RequestIds :
        (r1 # r2 /\ Issued(r1) /\ Issued(r2) /\ BatchOf(r1) = BatchOf(r2)
         /\ ~stale[r1] /\ ~stale[r2]) =>
            \A r \in {r1, r2} :
                IF Pending(r)
                THEN \E k \in {"abi", "packed"} :
                        CallbackErr(r, CleartextsFor(r, k), TRUE) = "OK"
                ELSE completed[r] = 1 /\ EveryCallbackFailsWith(r, "ReplayDetected")

\* C29: closeBatch only ever closes the batch with the latest id.  A batch
\* stops being open only in a closeBatch, and only while it is the latest
\* batch; once a later batch was opened, an open batch stays open in every
\* step, and any provider that passes the pause and cooldown gates is accepted
\* when it submits to it, whether the latest batch is open or not.
C29_OnlyLatestBatchCloses ==
    /\ [](\A b \in BatchIds : (0 < b /\ b < currentBatchId /\ isBatchOpen[b]) =>
            \A s \in Callers :
                (isProvider[s] /\ ~paused
                 /\ ~(now < lastSubmissionTime[s] + cooldownSeconds))
                    => SubmitErr(s, b) = "OK")
    /\ [][\A b \in BatchIds :
            /\ (isBatchOpen[b] /\ ~isBatchOpen'[b]) =>
                  /\ b = currentBatchId /\ currentBatchId' = currentBatchId
                  /\ last'.op = "closeBatch" /\ calls' # calls
            /\ (b < currentBatchId /\ isBatchOpen[b]) => isBatchOpen'[b]
         ]_vars
\* after a later batch was opened and closed, the earlier batch is still open
\* and has just taken a submission
C29_Witness ==
    /\ last.op = "submit" /\ last.arg[1] < currentBatchId
    /\ isBatchOpen[last.arg[1]] /\ ~isBatchOpen[currentBatchId]
    /\ submissionsCount[last.arg[1]] >= 1

\* C30: transferOwnership accepts any new owner, the zero address included.
\* An executed transferOwnership makes the named address the owner whatever
\* it is; once the owner is the zero address it stays so in every step, and
\* each of the nine owner-only operations fails with NotOwner for every
\* caller and every argument.  The rest keeps working: a provider passing the
\* cooldown gate is accepted when it submits to an open batch while the
\* contract is not paused, and a pending request whose batch is unchanged
\* accepts a callback with a valid proof.
C30_OwnershipCanBeRenounced ==
    /\ [](owner = ZeroAddress =>
            /\ \A s \in Callers : OwnerOnlyOutcomes(s) = {"NotOwner"}
            /\ \A s \in Callers, b \in BatchIds :
                  (~paused /\ isProvider[s] /\ isBatchOpen[b]
                   /\ ~(now < lastSubmissionTime[s] + cooldownSeconds))
                      => SubmitErr(s, b) = "OK"
            /\ \A r \in RequestIds :
                  (Pending(r) /\ ~Mismatch(r)) => CallbackErr(r, ZeroBuffer, TRUE) = "OK")
    /\ [][/\ (last'.op = "transferOwnership" /\ calls' # calls) => owner' = last'.arg
          /\ owner = ZeroAddress => owner' = ZeroAddress
         ]_vars
\* with the owner set to the zero address, a request made before the transfer
\* was just completed by its callback, and a provider may still submit to an
\* open batch
C30_Witness ==
    /\ owner = ZeroAddress /\ ~paused
    /\ last.op = "myCallback" /\ completed[last.arg[1]] = 1
    /\ \E s \in Callers, b \in BatchIds : isBatchOpen[b] /\ SubmitErr(s, b) = "OK"

\* a record is stored under record_<id>; an id is listed in record_keys
Stored(id) == Len(data[RecordKey(id)]) > 0
Listed(id) == \E i \in DOMAIN ParseKeys(data[KeysKey]) : ParseKeys(data[KeysKey])[i] = id
\* the call of session p has written record_keys
Written(p) == pc[p] \in {"loadKeys", "loadList", "done"}
Shown(p) == {records[p][i].id : i \in DOMAIN records[p]}

\* C31: createIdentity stores the record under record_<id> and then appends
\* the id to record_keys by a read followed by a separate write.  When two
\* calls both read record_keys before either writes it, then once both have
\* written, both records are stored but the two ids are never both listed in
\* record_keys: an id is lost.  When no call reads record_keys between
\* another call's read and write (the calls run one after the other), the
\* record of every call that has written record_keys is stored and listed.
C31_LostUpdateUnderInterleaving ==
    /\ \A p, q \in Sessions :
          (p # q /\ {p, q} \in overlapped /\ Written(p) /\ Written(q)) =>
              /\ Stored(recordId[p]) /\ Stored(recordId[q])
              /\ ~(Listed(recordId[p]) /\ Listed(recordId[q]))
    /\ overlapped = {} =>
          \A p \in Sessions : Written(p) => (Stored(recordId[p]) /\ Listed(recordId[p]))
\* two calls interleaved and both ended with success: the record of one is
\* stored but its id is missing from record_keys, and the list the other
\* session shows after its loadRecords does not contain it
C31_Witness ==
    \E p, q \in Sessions :
        /\ p # q /\ {p, q} \in overlapped
        /\ pc[p] = "done" /\ pc[q] = "done"
        /\ Stored(recordId[p]) /\ ~Listed(recordId[p])
        /\ Listed(recordId[q])
        /\ Shown(q) = {recordId[q]}
====
